---- MODULE Spec2Model ----
(***************************************************************************)
(* Model of conection_spead.py: the loader (read_path_to_df), the remote   *)
(* reader (fetch_sheet_as_df), the wholesale replace (replace_sheet) and   *)
(* the driver loop (process_all), against a Google-Sheets-like remote      *)
(* whose tabs are grids of text cells.                                     *)
(***************************************************************************)
EXTENDS Integers, Sequences, FiniteSets, TLC

\* conection_spead.py:141  batch_size = 100
batch_size == 100

\* Largest number of data rows of a source file of the model.
MaxRows == 250

\* Number of successive invocations of process_all in one behaviour.
MaxRuns == 2

\* Number of remote calls (open, lookup, read, delete, create, write) that
\* may raise in one behaviour.
MaxFaults == 1

(***************************************************************************)
(* Text.  A string that the code inspects (a path, a file name) is the     *)
(* sequence of its characters; a cell value is an opaque TLA+ string.      *)
(***************************************************************************)

\* Code point of a character, for Python's ordering of str.
Ord(ch) ==
    CASE ch = "." -> 46
      [] ch = "/" -> 47
      [] ch = "1" -> 49
      [] ch = "2" -> 50
      [] ch = "3" -> 51
      [] ch = "A" -> 65
      [] ch = "B" -> 66
      [] ch = "C" -> 67
      [] ch = "S" -> 83
      [] ch = "V" -> 86
      [] ch = "a" -> 97
      [] ch = "b" -> 98
      [] ch = "c" -> 99
      [] ch = "d" -> 100
      [] ch = "e" -> 101
      [] ch = "p" -> 112
      [] ch = "q" -> 113
      [] ch = "r" -> 114
      [] ch = "s" -> 115
      [] ch = "t" -> 116
      [] ch = "u" -> 117
      [] ch = "v" -> 118
      [] ch = "x" -> 120

\* str.lower() of one character.
LowerChar(ch) ==
    CASE ch = "A" -> "a"
      [] ch = "B" -> "b"
      [] ch = "C" -> "c"
      [] ch = "S" -> "s"
      [] ch = "V" -> "v"
      [] OTHER -> ch

\* str.lower()
lower(s) == [k \in 1..Len(s) |-> LowerChar(s[k])]

\* Python's str comparison a < b: by code point, a proper prefix first.
RECURSIVE StrLess(_, _)
StrLess(a, b) ==
    IF b = <<>> THEN FALSE
    ELSE IF a = <<>> THEN TRUE
    ELSE IF Ord(Head(a)) # Ord(Head(b)) THEN Ord(Head(a)) < Ord(Head(b))
    ELSE StrLess(Tail(a), Tail(b))

\* Insertion of one name into an ascending list.
RECURSIVE InsertSorted(_, _)
InsertSorted(x, s) ==
    IF s = <<>> THEN <<x>>
    ELSE IF StrLess(x, Head(s)) THEN <<x>> \o s
    ELSE <<Head(s)>> \o InsertSorted(x, Tail(s))

\* The names are taken in the order they were listed in.
sorted_as_listed(names) == names

\* sorted(os.listdir(path)): the names in ascending str order.
RECURSIVE sorted(_)
sorted(names) ==
    IF names = <<>> THEN <<>>
    ELSE InsertSorted(Head(names), sorted(Tail(names)))

\* Largest index of character ch in s, 0 when absent.
LastIndexOf(s, ch) ==
    LET hits == {k \in 1..Len(s) : s[k] = ch}
    IN  IF hits = {} THEN 0 ELSE CHOOSE k \in hits : \A j \in hits : j <= k

\* os.path.splitext(p)[1]: from the last dot of the last path component,
\* unless only dots precede it in that component.
splitext(p) ==
    LET sep == LastIndexOf(p, "/")
        dot == LastIndexOf(p, ".")
    IN  IF dot > sep /\ (\E k \in (sep + 1)..(dot - 1) : p[k] # ".")
        THEN SubSeq(p, dot, Len(p))
        ELSE <<>>

ExtCsv == <<".", "c", "s", "v">>
ExtParquet == <<".", "p", "a", "r", "q", "u", "e", "t">>

(***************************************************************************)
(* Datasets (pandas DataFrames): column labels, one dtype per column, and  *)
(* the rows as sequences of cell texts.                                    *)
(***************************************************************************)

\* A missing value (NaN / None) in a parsed frame.
NaN == "<NaN>"

\* pd.DataFrame()
EmptyDF == [columns |-> <<>>, dtypes |-> <<>>, rows |-> <<>>]

Range(s) == {s[k] : k \in DOMAIN s}

IndexOf(s, x) == CHOOSE k \in DOMAIN s : s[k] = x

\* df.fillna(""): every missing cell becomes the empty string.
fillna(df) ==
    [df EXCEPT !.rows =
        [r \in DOMAIN df.rows |->
            [c \in DOMAIN df.rows[r] |->
                IF df.rows[r][c] = NaN THEN "" ELSE df.rows[r][c]]]]

\* df_sheet.equals(df_local): same labels, same dtypes, same cells in order.
equals(a, b) ==
    /\ a.columns = b.columns
    /\ a.dtypes = b.dtypes
    /\ a.rows = b.rows

\* dtype=str of pd.read_csv: every column is read as text (object).
AsStr(df) == [df EXCEPT !.dtypes = [c \in DOMAIN df.dtypes |-> "object"]]

\* Column labels of pd.concat: in order of first appearance.
RECURSIVE ConcatColumns(_)
ConcatColumns(dfs) ==
    IF dfs = <<>> THEN <<>>
    ELSE LET rest == ConcatColumns(SubSeq(dfs, 1, Len(dfs) - 1))
             last == dfs[Len(dfs)].columns
         IN  rest \o SelectSeq(last, LAMBDA c : c \notin Range(rest))

\* Rows of one frame laid out under the labels cols, NaN where it lacks one.
Reindex(df, cols) ==
    [r \in 1..Len(df.rows) |->
        [c \in 1..Len(cols) |->
            IF cols[c] \in Range(df.columns)
            THEN df.rows[r][IndexOf(df.columns, cols[c])]
            ELSE NaN]]

RECURSIVE ConcatRows(_, _)
ConcatRows(dfs, cols) ==
    IF dfs = <<>> THEN <<>>
    ELSE Reindex(Head(dfs), cols) \o ConcatRows(Tail(dfs), cols)

\* pd.concat(dfs, ignore_index=True)
concat(dfs) ==
    LET cols == ConcatColumns(dfs)
        DtypesOf(c) ==
            {IF c \in Range(dfs[k].columns)
             THEN dfs[k].dtypes[IndexOf(dfs[k].columns, c)]
             ELSE "object" : k \in DOMAIN dfs}
    IN  [columns |-> cols,
         dtypes  |-> [c \in 1..Len(cols) |->
                        IF Cardinality(DtypesOf(cols[c])) = 1
                        THEN CHOOSE d \in DtypesOf(cols[c]) : TRUE
                        ELSE "object"],
         rows    |-> ConcatRows(dfs, cols)]

(***************************************************************************)
(* The local filesystem: what os.path and the pandas parsers see.          *)
(***************************************************************************)

\* A regular file: the encodings its bytes decode under, whether the parser
\* accepts it, and the frame the parser infers from it.
File(decodes, parses, frame) ==
    [kind |-> "file", decodes |-> decodes, parses |-> parses,
     frame |-> frame, entries |-> <<>>]

\* A directory: its entries by name.
Dir(entries) ==
    [kind |-> "dir", decodes |-> {}, parses |-> FALSE,
     frame |-> EmptyDF, entries |-> entries]

\* No such path.
Missing ==
    [kind |-> "missing", decodes |-> {}, parses |-> FALSE,
     frame |-> EmptyDF, entries |-> <<>>]

\* A result of a call that may raise.
Raised == [raised |-> TRUE, df |-> EmptyDF]
Returned(df) == [raised |-> FALSE, df |-> df]

\* conection_spead.py:54
encodings_to_try == <<"utf-8", "latin-1", "iso-8859-1", "cp1252">>

\* read_csv_with_encoding: the first encoding of the list that decodes the
\* file is the one pd.read_csv(dtype=str) parses it under; a parser error
\* propagates; with no encoding left the function raises.
read_csv_with_encoding(file) ==
    IF \A k \in DOMAIN encodings_to_try : encodings_to_try[k] \notin file.decodes
    THEN Raised
    ELSE IF ~file.parses THEN Raised
    ELSE Returned(AsStr(file.frame))

\* pd.read_parquet: the frame with the dtypes stored in the file.
read_parquet(file) ==
    IF ~file.parses THEN Raised ELSE Returned(file.frame)

\* The directory branch of read_path_to_df, over the names still to visit:
\* the frames appended to dfs, in visiting order.
RECURSIVE ReadEntries(_, _)
ReadEntries(names, entries) ==
    IF names = <<>> THEN <<>>
    ELSE LET fname == Head(names)
             ext   == lower(splitext(fname))
             res   == IF ext = ExtCsv THEN read_csv_with_encoding(entries[fname])
                      ELSE IF ext = ExtParquet THEN read_parquet(entries[fname])
                      ELSE Raised
             rest  == ReadEntries(Tail(names), entries)
         IN  IF ext \in {ExtCsv, ExtParquet} /\ ~res.raised
             THEN <<res.df>> \o rest
             ELSE rest

\* The tail of read_path_to_df: nothing read gives pd.DataFrame(), otherwise
\* the concatenation with missing values filled.
Finish(dfs) ==
    IF dfs = <<>> THEN EmptyDF ELSE fillna(concat(dfs))

\* read_path_to_df(path), for the node at the path and, for a directory, the
\* order os.listdir returned its names in.
read_path_to_df(path, node, listing) ==
    IF node.kind = "dir"
    THEN Returned(Finish(ReadEntries(sorted(listing), node.entries)))
    ELSE IF node.kind = "missing" THEN Returned(EmptyDF)
    ELSE LET ext == lower(splitext(path))
         IN  IF ext = ExtCsv
             THEN LET res == read_csv_with_encoding(node)
                  IN  IF res.raised THEN Raised ELSE Returned(Finish(<<res.df>>))
             ELSE IF ext = ExtParquet
             THEN LET res == read_parquet(node)
                  IN  IF res.raised THEN Raised ELSE Returned(Finish(<<res.df>>))
             ELSE Returned(EmptyDF)

(***************************************************************************)
(* The remote spreadsheet service, as gspread presents it.  A tab is a     *)
(* grid: a sequence of rows of text cells.                                 *)
(***************************************************************************)

AbsentTab == [exists |-> FALSE, grid |-> <<>>]

\* spreadsheet.add_worksheet(title, rows, cols): a blank grid of that size.
add_worksheet(rows, cols) ==
    [exists |-> TRUE, grid |-> [r \in 1..rows |-> [c \in 1..cols |-> ""]]]

\* ws.insert_rows(values, row): the rows are inserted before grid row `row`,
\* what was there moves down.
insert_rows(grid, values, row) ==
    SubSeq(grid, 1, row - 1) \o values \o SubSeq(grid, row, Len(grid))

\* ws.insert_row(values, index)
insert_row(grid, values, index) == insert_rows(grid, <<values>>, index)

IsBlankRow(row) == \A c \in DOMAIN row : row[c] = ""

\* Number of rows up to the last one that holds a value.
UsedRows(grid) ==
    LET used == {r \in DOMAIN grid : ~IsBlankRow(grid[r])}
    IN  IF used = {} THEN 0 ELSE CHOOSE r \in used : \A q \in used : q <= r

\* Number of columns up to the last one that holds a value.
UsedCols(grid) ==
    LET used == UNION {{c \in DOMAIN grid[r] : grid[r][c] # ""} : r \in DOMAIN grid}
    IN  IF used = {} THEN 0 ELSE CHOOSE c \in used : \A q \in used : q <= c

\* ws.get_all_values(): the cell texts up to the last row and the last column
\* that hold a value (the service omits trailing empty rows and columns), the
\* rows padded to one width; [] for a tab without values.
get_all_values(grid) ==
    LET cols == UsedCols(grid)
    IN  [r \in 1..UsedRows(grid) |->
            [c \in 1..cols |-> IF c \in DOMAIN grid[r] THEN grid[r][c] ELSE ""]]

\* The Option<Dataset> of the remote reader.
None == [some |-> FALSE, df |-> EmptyDF]
Some(df) == [some |-> TRUE, df |-> df]

\* fetch_sheet_as_df, once the worksheet lookup has answered: None for a tab
\* that does not exist, else the first row of values as the labels and the
\* rest as the rows, all text.
fetch_sheet_as_df(tab) ==
    IF ~tab.exists THEN None
    ELSE LET data == get_all_values(tab.grid)
         IN  IF data = <<>> THEN Some(EmptyDF)
             ELSE Some(fillna([columns |-> data[1],
                               dtypes  |-> [c \in DOMAIN data[1] |-> "object"],
                               rows    |-> Tail(data)]))

\* A tab that does not exist is taken for unchanged.
needs_replace_none_equal(remote, local) == remote.some /\ ~equals(remote.df, local)

\* The branch of process_all at line 171: the tab is left alone only when it
\* exists and its Dataset equals the local one.
needs_replace(remote, local) == ~(remote.some /\ equals(remote.df, local))

\* The slice runs one row into the next batch.
block_overlap(rows, i) ==
    SubSeq(rows, i + 1, IF i + batch_size + 1 < Len(rows) THEN i + batch_size + 1 ELSE Len(rows))

\* rows[i : i + batch_size]
block(rows, i) ==
    SubSeq(rows, i + 1, IF i + batch_size < Len(rows) THEN i + batch_size ELSE Len(rows))

\* Every block is written right under the header.
block_row_top(i) == 2

\* The row index the block is written at: ws.insert_rows(block, row=i + 2).
block_row(i) == i + 2

(***************************************************************************)
(* The configuration and the inputs of the model.                          *)
(***************************************************************************)

P1 == <<"d", "/", "p", "1", ".", "c", "s", "v">>
P2 == <<"d", "/", "p", "2">>
P3 == <<"d", "/", "p", "3", ".", "p", "a", "r", "q", "u", "e", "t">>

\* The global SPREADSHEETS: two spreadsheets, three targets.
SPREADSHEETS ==
    << [url |-> "u1",
        sheets |-> << [sheet_name |-> "t1", path |-> P1],
                      [sheet_name |-> "t2", path |-> P2] >>],
       [url |-> "u2",
        sheets |-> << [sheet_name |-> "t3", path |-> P3] >>] >>

Books == DOMAIN SPREADSHEETS

\* A target is named by its place in the configuration.
Targets == UNION {{<<b, e>> : e \in DOMAIN SPREADSHEETS[b].sheets} : b \in Books}

EntryOf(t) == SPREADSHEETS[t[1]].sheets[t[2]]

\* The tab of a target: (spreadsheet, tab name).
TabOf(t) == <<SPREADSHEETS[t[1]].url, EntryOf(t).sheet_name>>

Tabs == {TabOf(t) : t \in Targets}

Paths == {EntryOf(t).path : t \in Targets}

\* A parsed source: n rows (tag, r); the parser infers an integer column.
Frame(tag, n) ==
    [columns |-> <<"id", "v">>,
     dtypes  |-> <<"object", "int64">>,
     rows    |-> [r \in 1..n |-> <<tag, ToString(r)>>]]

\* A source with missing cells, the last line holding none at all.
FrameGaps ==
    [columns |-> <<"id", "v">>,
     dtypes  |-> <<"object", "float64">>,
     rows    |-> << <<"g", NaN>>, <<NaN, "1">>, <<NaN, NaN>> >>]

Utf8 == {"utf-8", "latin-1", "iso-8859-1", "cp1252"}
Latin == {"latin-1", "iso-8859-1", "cp1252"}

\* A directory listed out of order, with an entry of another format.
DirPlain ==
    Dir(<<"b", ".", "c", "s", "v">> :> File(Utf8, TRUE, Frame("b", 2)) @@
        <<"a", ".", "c", "s", "v">> :> File(Latin, TRUE, Frame("a", 1)) @@
        <<"c", ".", "t", "x", "t">> :> File(Utf8, TRUE, Frame("c", 1)))

\* A directory with an upper-case name, an entry no encoding decodes and a
\* Parquet file the parser rejects.
DirBroken ==
    Dir(<<"B", ".", "C", "S", "V">> :> File(Utf8, TRUE, Frame("B", 1)) @@
        <<"a", ".", "c", "s", "v">> :> File({}, TRUE, Frame("a", 1)) @@
        <<"a", "b", ".", "c", "s", "v">> :> File(Utf8, TRUE, Frame("ab", 2)) @@
        <<"b", ".", "p", "a", "r", "q", "u", "e", "t">> :> File(Utf8, FALSE, EmptyDF))

\* What each configured path may be on disk.
Sources(path) ==
    IF path = P1
    THEN {Missing,
          File(Utf8, TRUE, Frame("r", 0)),
          File(Latin, TRUE, Frame("r", batch_size)),
          File(Utf8, TRUE, Frame("r", MaxRows)),
          File(Utf8, TRUE, FrameGaps),
          File(Utf8, FALSE, EmptyDF)}
    ELSE IF path = P2
    THEN {Missing, DirPlain, DirBroken, File(Utf8, TRUE, Frame("r", 1))}
    ELSE {Missing,
          File(Utf8, TRUE, Frame("r", 2)),
          File(Utf8, TRUE, AsStr(Frame("r", batch_size + 1)))}

\* What a tab may hold before the first run: nothing (absent), a blank grid,
\* or other content.
InitialTabs ==
    {AbsentTab,
     add_worksheet(2, 2),
     [exists |-> TRUE, grid |-> << <<"id", "v">>, <<"old", "0">> >>]}

(***************************************************************************)
(* The state.                                                              *)
(***************************************************************************)

VARIABLES
    fs,          \* the filesystem: configured path -> node
    tabs,        \* the remote: (spreadsheet, tab name) -> tab
    pc,          \* where process_all stands
    bi,          \* index of `book` in SPREADSHEETS
    ei,          \* index of `entry` in book['sheets']
    df_local,    \* process_all's df_local
    df_sheet,    \* process_all's df_sheet
    i,           \* replace_sheet's loop variable
    listing,     \* what os.listdir returned for the path being read
    opened,      \* per spreadsheet: "unopened", "ok" or "failed" in this run
    status,      \* per target: how far its processing has come in this run
    log,         \* the remote calls of this run, in order
    run,         \* which invocation of process_all this is
    prev_status, \* the status of every target at the end of the previous run
    faults       \* remote calls that raised so far

vars == <<fs, tabs, pc, bi, ei, df_local, df_sheet, i, listing, opened,
          status, log, run, prev_status, faults>>

Entry == SPREADSHEETS[bi].sheets[ei]
Cur == <<bi, ei>>
CurTab == <<SPREADSHEETS[bi].url, Entry.sheet_name>>

Init ==
    /\ fs \in {f \in [Paths -> UNION {Sources(p) : p \in Paths}] :
                 \A p \in Paths : f[p] \in Sources(p)}
    /\ tabs \in [Tabs -> InitialTabs]
    /\ pc = "auth"
    /\ bi = 1
    /\ ei = 1
    /\ df_local = EmptyDF
    /\ df_sheet = None
    /\ i = 0
    /\ listing = <<>>
    /\ opened = [b \in Books |-> "unopened"]
    /\ status = [t \in Targets |-> "PENDING"]
    /\ log = <<>>
    /\ run = 1
    /\ prev_status = [t \in Targets |-> "PENDING"]
    /\ faults = 0

(***************************************************************************)
(* process_all, one step per call that can fail or be observed.            *)
(***************************************************************************)

\* One remote call as the log records it.
Call(op, tab, row, n, out) ==
    [op |-> op, tab |-> tab, row |-> row, n |-> n, out |-> out]

\* A remote call may raise while the budget of faults lasts.
CanFail == faults < MaxFaults

\* `for book in SPREADSHEETS`: the next spreadsheet, or the end of the run.
NextBook(b) ==
    IF b < Len(SPREADSHEETS)
    THEN [pc |-> "open", bi |-> b + 1, ei |-> 1]
    ELSE [pc |-> "done", bi |-> b, ei |-> 1]

\* `for entry in book['sheets']`: the next entry, or the next spreadsheet.
NextEntry(b, e) ==
    IF e < Len(SPREADSHEETS[b].sheets)
    THEN [pc |-> "entry", bi |-> b, ei |-> e + 1]
    ELSE NextBook(b)

Goto(pos) ==
    /\ pc' = pos.pc
    /\ bi' = pos.bi
    /\ ei' = pos.ei

\* An exception leaves process_all: nothing in it catches one raised while a
\* target is processed, so the run ends there.
Propagate ==
    /\ pc' = "crashed"
    /\ status' = [status EXCEPT ![Cur] = "FAILED"]
    /\ UNCHANGED <<bi, ei>>

\* client = authenticate(auth_path): a failure ends the run before any
\* spreadsheet is opened.
Authenticate ==
    /\ pc = "auth"
    /\ \/ /\ pc' = "open"
          /\ UNCHANGED faults
       \/ /\ CanFail
          /\ faults' = faults + 1
          /\ pc' = "crashed"
    /\ UNCHANGED <<fs, tabs, bi, ei, df_local, df_sheet, i, listing, opened,
                   status, log, run, prev_status>>

\* The failure to open ends the loop over the spreadsheets (break).
OpenBookBreak ==
    /\ pc = "open"
    /\ \/ /\ opened' = [opened EXCEPT ![bi] = "ok"]
          /\ log' = Append(log, Call("open_by_url", <<SPREADSHEETS[bi].url, "">>, 0, 0, "ok"))
          /\ IF Len(SPREADSHEETS[bi].sheets) > 0
             THEN Goto([pc |-> "entry", bi |-> bi, ei |-> 1])
             ELSE Goto(NextBook(bi))
          /\ UNCHANGED faults
       \/ /\ CanFail
          /\ faults' = faults + 1
          /\ opened' = [opened EXCEPT ![bi] = "failed"]
          /\ log' = Append(log, Call("open_by_url", <<SPREADSHEETS[bi].url, "">>, 0, 0, "error"))
          /\ Goto([pc |-> "done", bi |-> bi, ei |-> 1])
    /\ UNCHANGED <<fs, tabs, df_local, df_sheet, i, listing, status, run,
                   prev_status>>

\* client.open_by_url(book['url']) inside try/except: on failure the
\* spreadsheet is given up (continue), on success its entries are taken up.
OpenBook ==
    /\ pc = "open"
    /\ \/ /\ opened' = [opened EXCEPT ![bi] = "ok"]
          /\ log' = Append(log, Call("open_by_url", <<SPREADSHEETS[bi].url, "">>, 0, 0, "ok"))
          /\ IF Len(SPREADSHEETS[bi].sheets) > 0
             THEN Goto([pc |-> "entry", bi |-> bi, ei |-> 1])
             ELSE Goto(NextBook(bi))
          /\ UNCHANGED faults
       \/ /\ CanFail
          /\ faults' = faults + 1
          /\ opened' = [opened EXCEPT ![bi] = "failed"]
          /\ log' = Append(log, Call("open_by_url", <<SPREADSHEETS[bi].url, "">>, 0, 0, "error"))
          /\ Goto(NextBook(bi))
    /\ UNCHANGED <<fs, tabs, df_local, df_sheet, i, listing, status, run,
                   prev_status>>

\* The missing path ends the loop over the entries (break).
SkipMissingBreak ==
    /\ pc = "entry"
    /\ fs[Entry.path].kind = "missing"
    /\ status' = [status EXCEPT ![Cur] = "SKIPPED"]
    /\ Goto(NextBook(bi))
    /\ UNCHANGED <<fs, tabs, df_local, df_sheet, i, listing, opened, log, run,
                   prev_status, faults>>

\* `if not os.path.exists(path): ... continue`
SkipMissing ==
    /\ pc = "entry"
    /\ fs[Entry.path].kind = "missing"
    /\ status' = [status EXCEPT ![Cur] = "SKIPPED"]
    /\ Goto(NextEntry(bi, ei))
    /\ UNCHANGED <<fs, tabs, df_local, df_sheet, i, listing, opened, log, run,
                   prev_status, faults>>

\* The orders os.listdir may return the names of a directory in.
Listings(node) ==
    IF node.kind = "dir"
    THEN {l \in [1..Cardinality(DOMAIN node.entries) -> DOMAIN node.entries] :
            \A j, k \in DOMAIN l : j # k => l[j] # l[k]}
    ELSE {<<>>}

\* df_local = read_path_to_df(path)
Load ==
    /\ pc = "entry"
    /\ fs[Entry.path].kind # "missing"
    /\ \E l \in Listings(fs[Entry.path]) :
          LET res == read_path_to_df(Entry.path, fs[Entry.path], l)
          IN  /\ listing' = l
              /\ IF res.raised
                 THEN /\ Propagate
                      /\ UNCHANGED df_local
                 ELSE /\ df_local' = res.df
                      /\ status' = [status EXCEPT ![Cur] = "LOADED"]
                      /\ pc' = "fetch"
                      /\ UNCHANGED <<bi, ei>>
    /\ UNCHANGED <<fs, tabs, df_sheet, i, opened, log, run, prev_status, faults>>

\* df_sheet = fetch_sheet_as_df(spreadsheet, name): the worksheet lookup,
\* then get_all_values; WorksheetNotFound gives None, any other error of
\* either call propagates.
Fetch ==
    /\ pc = "fetch"
    /\ listing' = <<>>
    /\ \/ /\ ~tabs[CurTab].exists
          /\ log' = Append(log, Call("worksheet", CurTab, 0, 0, "not_found"))
          /\ df_sheet' = fetch_sheet_as_df(tabs[CurTab])
          /\ status' = [status EXCEPT ![Cur] = "COMPARED"]
          /\ pc' = "compare"
          /\ UNCHANGED <<bi, ei, faults>>
       \/ /\ tabs[CurTab].exists
          /\ log' = log \o << Call("worksheet", CurTab, 0, 0, "ok"),
                              Call("get_all_values", CurTab, 0, 0, "ok") >>
          /\ df_sheet' = fetch_sheet_as_df(tabs[CurTab])
          /\ status' = [status EXCEPT ![Cur] = "COMPARED"]
          /\ pc' = "compare"
          /\ UNCHANGED <<bi, ei, faults>>
       \/ /\ CanFail
          /\ faults' = faults + 1
          /\ log' = Append(log, Call("worksheet", CurTab, 0, 0, "error"))
          /\ Propagate
          /\ UNCHANGED df_sheet
       \/ /\ CanFail
          /\ tabs[CurTab].exists
          /\ faults' = faults + 1
          /\ log' = log \o << Call("worksheet", CurTab, 0, 0, "ok"),
                              Call("get_all_values", CurTab, 0, 0, "error") >>
          /\ Propagate
          /\ UNCHANGED df_sheet
    /\ UNCHANGED <<fs, tabs, df_local, i, opened, run, prev_status>>

\* `if df_sheet is not None and df_sheet.equals(df_local)`: no change, or on
\* to replace_sheet.
Compare ==
    /\ pc = "compare"
    /\ IF needs_replace(df_sheet, df_local)
       THEN /\ pc' = "del"
            /\ UNCHANGED <<bi, ei, status>>
       ELSE /\ status' = [status EXCEPT ![Cur] = "NO_CHANGE"]
            /\ Goto(NextEntry(bi, ei))
    /\ UNCHANGED <<fs, tabs, df_local, df_sheet, i, listing, opened, log, run,
                   prev_status, faults>>

\* replace_sheet, lines 129-133: look the tab up and delete it; a tab that
\* is not there is passed over, any other error propagates.
ReplaceDelete ==
    /\ pc = "del"
    /\ \/ /\ tabs[CurTab].exists
          /\ tabs' = [tabs EXCEPT ![CurTab] = AbsentTab]
          /\ log' = log \o << Call("worksheet", CurTab, 0, 0, "ok"),
                              Call("del_worksheet", CurTab, 0, 0, "ok") >>
          /\ pc' = "add"
          /\ UNCHANGED <<bi, ei, status, faults>>
       \/ /\ ~tabs[CurTab].exists
          /\ log' = Append(log, Call("worksheet", CurTab, 0, 0, "not_found"))
          /\ pc' = "add"
          /\ UNCHANGED <<tabs, bi, ei, status, faults>>
       \/ /\ CanFail
          /\ faults' = faults + 1
          /\ log' = Append(log, Call("worksheet", CurTab, 0, 0, "error"))
          /\ Propagate
          /\ UNCHANGED tabs
       \/ /\ CanFail
          /\ tabs[CurTab].exists
          /\ faults' = faults + 1
          /\ log' = log \o << Call("worksheet", CurTab, 0, 0, "ok"),
                              Call("del_worksheet", CurTab, 0, 0, "error") >>
          /\ Propagate
          /\ UNCHANGED tabs
    /\ UNCHANGED <<fs, df_local, df_sheet, i, listing, opened, run, prev_status>>

\* replace_sheet, lines 134-138: add_worksheet(rows=len(df)+1, cols=len(df.columns))
ReplaceCreate ==
    /\ pc = "add"
    /\ \/ /\ tabs' = [tabs EXCEPT ![CurTab] =
                         add_worksheet(Len(df_local.rows) + 1, Len(df_local.columns))]
          /\ log' = Append(log, Call("add_worksheet", CurTab,
                                     Len(df_local.rows) + 1, Len(df_local.columns), "ok"))
          /\ pc' = "header"
          /\ UNCHANGED <<bi, ei, status, faults>>
       \/ /\ CanFail
          /\ faults' = faults + 1
          /\ log' = Append(log, Call("add_worksheet", CurTab,
                                     Len(df_local.rows) + 1, Len(df_local.columns), "error"))
          /\ Propagate
          /\ UNCHANGED tabs
    /\ UNCHANGED <<fs, df_local, df_sheet, i, listing, opened, run, prev_status>>

\* replace_sheet, lines 139-141: ws.insert_row(df.columns.tolist(), index=1)
ReplaceHeader ==
    /\ pc = "header"
    /\ \/ /\ tabs' = [tabs EXCEPT ![CurTab].grid = insert_row(@, df_local.columns, 1)]
          /\ log' = Append(log, Call("insert_row", CurTab, 1, 1, "ok"))
          /\ i' = 0
          /\ pc' = "batch"
          /\ UNCHANGED <<bi, ei, status, faults>>
       \/ /\ CanFail
          /\ faults' = faults + 1
          /\ log' = Append(log, Call("insert_row", CurTab, 1, 1, "error"))
          /\ Propagate
          /\ UNCHANGED <<tabs, i>>
    /\ UNCHANGED <<fs, df_local, df_sheet, listing, opened, run, prev_status>>

\* A failed batch write is cleaned up after: the tab is deleted again.
ReplaceBatchRollback ==
    /\ pc = "batch"
    /\ i < Len(df_local.rows)
    /\ \/ /\ tabs' = [tabs EXCEPT ![CurTab].grid =
                         insert_rows(@, block(df_local.rows, i), block_row(i))]
          /\ log' = Append(log, Call("insert_rows", CurTab, block_row(i),
                                     Len(block(df_local.rows, i)), "ok"))
          /\ i' = i + batch_size
          /\ UNCHANGED <<pc, bi, ei, status, faults>>
       \/ /\ CanFail
          /\ faults' = faults + 1
          /\ log' = Append(log, Call("insert_rows", CurTab, block_row(i),
                                     Len(block(df_local.rows, i)), "error"))
          /\ Propagate
          /\ tabs' = [tabs EXCEPT ![CurTab] = AbsentTab]
          /\ UNCHANGED i
    /\ UNCHANGED <<fs, df_local, df_sheet, listing, opened, run, prev_status>>

\* replace_sheet, lines 142-144: one iteration of the batch loop.
ReplaceBatch ==
    /\ pc = "batch"
    /\ i < Len(df_local.rows)
    /\ \/ /\ tabs' = [tabs EXCEPT ![CurTab].grid =
                         insert_rows(@, block(df_local.rows, i), block_row(i))]
          /\ log' = Append(log, Call("insert_rows", CurTab, block_row(i),
                                     Len(block(df_local.rows, i)), "ok"))
          /\ i' = i + batch_size
          /\ UNCHANGED <<pc, bi, ei, status, faults>>
       \/ /\ CanFail
          /\ faults' = faults + 1
          /\ log' = Append(log, Call("insert_rows", CurTab, block_row(i),
                                     Len(block(df_local.rows, i)), "error"))
          /\ Propagate
          /\ UNCHANGED <<tabs, i>>
    /\ UNCHANGED <<fs, df_local, df_sheet, listing, opened, run, prev_status>>

\* The loop over the entries does not move on after a replace.
FinishReplaceStay ==
    /\ pc = "batch"
    /\ i >= Len(df_local.rows)
    /\ status' = [status EXCEPT ![Cur] = "REPLACED"]
    /\ Goto([pc |-> "entry", bi |-> bi, ei |-> ei])
    /\ UNCHANGED <<fs, tabs, df_local, df_sheet, i, listing, opened, log, run,
                   prev_status, faults>>

\* The batch loop is exhausted: replace_sheet returns, the tab is reported
\* updated (line 176) and the loop goes on.
FinishReplace ==
    /\ pc = "batch"
    /\ i >= Len(df_local.rows)
    /\ status' = [status EXCEPT ![Cur] = "REPLACED"]
    /\ Goto(NextEntry(bi, ei))
    /\ UNCHANGED <<fs, tabs, df_local, df_sheet, i, listing, opened, log, run,
                   prev_status, faults>>

\* The script is invoked again (lines 179-180) on the same files, after a
\* run that completed: nothing but the remote is carried over.
Rerun ==
    /\ pc = "done"
    /\ run < MaxRuns
    /\ run' = run + 1
    /\ prev_status' = status
    /\ status' = [t \in Targets |-> "PENDING"]
    /\ opened' = [b \in Books |-> "unopened"]
    /\ log' = <<>>
    /\ pc' = "auth"
    /\ bi' = 1
    /\ ei' = 1
    /\ df_local' = EmptyDF
    /\ df_sheet' = None
    /\ i' = 0
    /\ listing' = <<>>
    /\ UNCHANGED <<fs, tabs, faults>>

Next ==
    \/ Authenticate
    \/ OpenBook
    \/ SkipMissing
    \/ Load
    \/ Fetch
    \/ Compare
    \/ ReplaceDelete
    \/ ReplaceCreate
    \/ ReplaceHeader
    \/ ReplaceBatch
    \/ FinishReplace
    \/ Rerun

Spec == Init /\ [][Next]_vars

(***************************************************************************)
(* Vocabulary of the properties.                                           *)
(***************************************************************************)

\* The remote calls that change a tab.
MutatingOps == {"del_worksheet", "add_worksheet", "insert_row", "insert_rows"}

\* The calls of this run that name the tab, in order.
LogOf(tab) == SelectSeq(log, LAMBDA c : c.tab = tab)

\* The changes this run made, or tried to make, to the tab, in order.
ChangesOf(tab) == SelectSeq(log, LAMBDA c : c.tab = tab /\ c.op \in MutatingOps)

RunEnded == pc \in {"done", "crashed"}

Terminal == {"NO_CHANGE", "REPLACED", "FAILED"}

\* t comes before u in the configuration.
Before(t, u) == t[1] < u[1] \/ (t[1] = u[1] /\ t[2] < u[2])

\* C1: Idempotence.  In a run that follows a completed run over the same
\* files, no target that the earlier run replaced or found unchanged is
\* replaced again: it gets no delete, create or write and is never reported
\* as replaced.
C1_Idempotence ==
    run >= 2 =>
        \A t \in Targets :
            prev_status[t] \in {"REPLACED", "NO_CHANGE"} =>
                /\ ChangesOf(TabOf(t)) = <<>>
                /\ status[t] # "REPLACED"
                /\ (status[t] = "COMPARED" /\ pc = "compare" =>
                        ~needs_replace(df_sheet, df_local))

\* C2: Decision rule.  The step that compares goes on to the replace exactly
\* when the remote reader returned None or a Dataset that differs from the
\* local one; otherwise the target is reported unchanged, and a target
\* reported unchanged has had no delete, create or write in this run.
C2_DecisionRule ==
    [][ /\ pc = "compare" =>
            /\ (pc' = "del") <=> (~df_sheet.some \/ df_sheet.df # df_local)
            /\ pc' # "del" => /\ status'[Cur] = "NO_CHANGE"
                              /\ tabs' = tabs
                              /\ log' = log
        /\ \A t \in Targets :
              status'[t] = "NO_CHANGE" => ChangesOf(TabOf(t))' = <<>>
        /\ pc' = "del" => pc = "compare"
      ]_vars

\* Both outcomes of the rule in one run: a tab left alone, and a tab that
\* existed with other content and was replaced.
C2_Witness ==
    /\ run = 1
    /\ \E t, u \in Targets :
          /\ status[t] = "NO_CHANGE"
          /\ status[u] = "REPLACED"
          /\ \E k \in DOMAIN log : log[k] = Call("del_worksheet", TabOf(u), 0, 0, "ok")

\* The place of a change in the order replace_sheet is to make them in.
Stage(c) ==
    CASE c.op = "del_worksheet" -> 1
      [] c.op = "add_worksheet" -> 2
      [] c.op = "insert_row"    -> 3
      [] c.op = "insert_rows"   -> 4

\* C3: Replace ordering.  In every run the changes made to a tab are, in this
\* order: at most one delete (none when the lookup found no tab, and then the
\* replace goes on), one create of (rows + 1) x columns, the header at row 1,
\* then the batches at ascending rows from row 2; no batch comes before the
\* header, no write before the create, and a call that raised is the last.
C3_ReplaceOrdering ==
    \A tab \in Tabs :
        LET m == ChangesOf(tab)
            l == LogOf(tab)
        IN  /\ \A j, k \in DOMAIN m :
                  j < k => /\ m[j].out = "ok"
                           /\ \/ Stage(m[j]) < Stage(m[k])
                              \/ /\ Stage(m[j]) = 4
                                 /\ Stage(m[k]) = 4
                                 /\ m[j].row < m[k].row
            /\ \A k \in DOMAIN m :
                  /\ Stage(m[k]) = 2 /\ k = 1 =>
                        \E j \in DOMAIN l :
                            /\ j < Len(l)
                            /\ l[j] = Call("worksheet", tab, 0, 0, "not_found")
                            /\ l[j + 1] = m[k]
                  /\ Stage(m[k]) = 3 => /\ k > 1
                                        /\ Stage(m[k - 1]) = 2
                                        /\ m[k].row = 1
                  /\ Stage(m[k]) = 4 => /\ k > 1
                                        /\ Stage(m[k - 1]) \in {3, 4}
                                        /\ Stage(m[k - 1]) = 3 => m[k].row = 2
            /\ tab = CurTab /\ pc \in {"header", "batch"} =>
                  \E k \in DOMAIN m :
                      m[k] = Call("add_worksheet", tab, Len(df_local.rows) + 1,
                                  Len(df_local.columns), "ok")

\* A replace that found no tab to delete and went on to write the header and
\* more than one batch.
C3_Witness ==
    /\ pc = "batch"
    /\ i >= Len(df_local.rows)
    /\ LET m == ChangesOf(CurTab)
       IN  /\ Len(m) >= 4
           /\ m[1].op = "add_worksheet"
           /\ m[Len(m)].op = "insert_rows"
           /\ m[Len(m) - 1].op = "insert_rows"

\* The least whole number of batches that hold n rows.
CeilDiv(n, b) == (n + b - 1) \div b

Min(a, b) == IF a < b THEN a ELSE b

\* C4: Batch integrity.  While and after the batches of a replace are
\* written: the k-th batch went to row (k-1)*B + 2 and held local rows
\* (k-1)*B+1 .. min(k*B, N); the tab holds the header at row 1 and local row
\* r at row r + 1 for every row written so far, each once and in order; and
\* when the loop ends exactly ceil(N / B) batches were written.
C4_BatchIntegrity ==
    pc = "batch" =>
        LET rows    == df_local.rows
            N       == Len(rows)
            written == Min(i, N)
            grid    == tabs[CurTab].grid
            batches == SelectSeq(ChangesOf(CurTab),
                                 LAMBDA c : c.op = "insert_rows" /\ c.out = "ok")
        IN  /\ Len(batches) = CeilDiv(written, batch_size)
            /\ i >= N => Len(batches) = CeilDiv(N, batch_size)
            /\ \A k \in DOMAIN batches :
                  /\ batches[k].row = (k - 1) * batch_size + 2
                  /\ batches[k].n = Min(k * batch_size, N) - (k - 1) * batch_size
            /\ grid[1] = df_local.columns
            /\ \A r \in 1..written : grid[r + 1] = rows[r]
            /\ Len(grid) = N + 2 + written
            /\ \A r \in (written + 2)..Len(grid) : IsBlankRow(grid[r])

\* The batch loop has ended after a last batch shorter than the others.
C4_Witness ==
    /\ pc = "batch"
    /\ i >= Len(df_local.rows)
    /\ Len(df_local.rows) > 2 * batch_size
    /\ Len(df_local.rows) % batch_size # 0
    /\ tabs[CurTab].grid[Len(df_local.rows) + 1] = df_local.rows[Len(df_local.rows)]

\* C5: Per-target failure isolation.  When the run has ended, every target
\* that comes after a failed one, under a spreadsheet that did not fail to
\* open, has been processed: a failure in one target has not kept a later
\* one from being taken up.
C5_FailureIsolation ==
    RunEnded =>
        \A t, u \in Targets :
            /\ status[t] = "FAILED"
            /\ Before(t, u)
            /\ opened[u[1]] # "failed"
            => status[u] # "PENDING"

\* C6: Non-fatal path miss.  A target is reported skipped exactly when it was
\* reached and its path is missing; no remote call of the run names its tab;
\* and the skip does not end the run: the target after it under the same
\* spreadsheet is taken up next, so that at the end of the run it has been
\* skipped, found unchanged, replaced or has failed itself.
C6_PathMiss ==
    \A t \in Targets :
        /\ status[t] = "SKIPPED" =>
              /\ fs[EntryOf(t).path].kind = "missing"
              /\ LogOf(TabOf(t)) = <<>>
              /\ tabs[TabOf(t)] \in InitialTabs
              /\ \A u \in Targets :
                    u[1] = t[1] /\ u[2] = t[2] + 1 =>
                        \/ pc = "entry" /\ Cur = u
                        \/ status[u] # "PENDING"
              /\ pc = "crashed" => \E u \in Targets : status[u] = "FAILED"
              /\ (~\E u \in Targets : Before(t, u)) => pc = "done"
        /\ status[t] \in {"LOADED", "COMPARED", "NO_CHANGE", "REPLACED"} =>
              fs[EntryOf(t).path].kind # "missing"
        /\ fs[EntryOf(t).path].kind = "missing" =>
              status[t] \in {"PENDING", "SKIPPED"}

\* The first of two targets was skipped for its missing path and the second
\* was replaced.
C6_Witness ==
    /\ RunEnded
    /\ status[<<1, 1>>] = "SKIPPED"
    /\ status[<<1, 2>>] = "REPLACED"
    /\ ChangesOf(TabOf(<<1, 2>>)) # <<>>

\* C7: Spreadsheet-level isolation.  Of a spreadsheet that failed to open no
\* target is loaded and no tab is read or written; the spreadsheets are taken
\* up in configuration order; the failure does not end the run: the next
\* spreadsheet is opened next, and at the end of a run that no target failure
\* ended every other spreadsheet has been opened or has failed to open.
C7_SpreadsheetIsolation ==
    \A b \in Books :
        /\ opened[b] = "failed" =>
              /\ \A t \in Targets :
                    t[1] = b => /\ status[t] = "PENDING"
                                /\ LogOf(TabOf(t)) = <<>>
              /\ b < Len(SPREADSHEETS) =>
                    \/ pc = "open" /\ bi = b + 1
                    \/ opened[b + 1] # "unopened"
              /\ b = Len(SPREADSHEETS) => pc = "done"
              /\ pc = "done" => \A c \in Books : opened[c] # "unopened"
        /\ opened[b] # "unopened" =>
              \A c \in Books : c < b => opened[c] # "unopened"
        /\ opened[b] = "unopened" =>
              \A t \in Targets : t[1] = b => status[t] = "PENDING"

\* The first spreadsheet failed to open and the target of the second was
\* replaced all the same.
C7_Witness ==
    /\ pc = "done"
    /\ opened[1] = "failed"
    /\ status[<<2, 1>>] = "REPLACED"

\* The entries of a directory that have a recognized extension and that the
\* parser reads.
Readable(entries) ==
    {f \in DOMAIN entries :
        \/ /\ lower(splitext(f)) = ExtCsv
           /\ entries[f].decodes # {}
           /\ entries[f].parses
        \/ /\ lower(splitext(f)) = ExtParquet
           /\ entries[f].parses}

\* The names of a set in ascending order.
Ascending(names) ==
    CHOOSE s \in [1..Cardinality(names) -> names] :
        \A j, k \in DOMAIN s : j < k => StrLess(s[j], s[k])

\* The rows of the named entries, one file after the other, missing cells
\* empty.
RECURSIVE RowsInOrder(_, _)
RowsInOrder(s, entries) ==
    IF s = <<>> THEN <<>>
    ELSE fillna(entries[Head(s)].frame).rows \o RowsInOrder(Tail(s), entries)

\* C8: Directory concatenation order.  Whatever order the directory was
\* listed in, the Dataset loaded from it holds the rows of its readable
\* entries of recognized extension, file after file in ascending name order,
\* the rows of each file in their order; the other entries contribute
\* nothing and do not stop the load.
C8_DirectoryOrder ==
    pc = "fetch" /\ fs[Entry.path].kind = "dir" =>
        LET entries == fs[Entry.path].entries
        IN  /\ df_local.rows = RowsInOrder(Ascending(Readable(entries)), entries)
            /\ status[Cur] = "LOADED"

\* A directory listed out of name order, with an entry that was passed over,
\* has been loaded.
C8_Witness ==
    /\ pc = "fetch"
    /\ fs[Entry.path].kind = "dir"
    /\ \E j, k \in DOMAIN listing : j < k /\ StrLess(listing[k], listing[j])
    /\ Readable(fs[Entry.path].entries) # DOMAIN fs[Entry.path].entries
    /\ Len(df_local.rows) >= 3

\* The moves of a target's status that follow the chain
\* PENDING -> LOADED -> COMPARED -> {NO_CHANGE | REPLACED | FAILED}, a
\* failure being allowed to cut it short.
ChainMove(a, b) ==
    \/ a = "PENDING" /\ b \in {"LOADED", "FAILED"}
    \/ a = "LOADED" /\ b \in {"COMPARED", "FAILED"}
    \/ a = "COMPARED" /\ b \in Terminal

\* What the per-target state machine says of one step of a run, apart from
\* where the targets stand at its end: only the target at hand moves, along
\* the chain (or, where skips are admitted, from PENDING to SKIPPED); the
\* remote is read only once the target is loaded and changed only once it is
\* compared; a target is under way only when those before it are not.
MachineStep(skips) ==
    /\ \A t \in Targets :
          status'[t] # status[t] =>
              /\ t = Cur
              /\ \/ ChainMove(status[t], status'[t])
                 \/ skips /\ status[t] = "PENDING" /\ status'[t] = "SKIPPED"
    /\ \A k \in (Len(log) + 1)..Len(log') :
          log'[k].op # "open_by_url" =>
              /\ log'[k].tab = CurTab
              /\ status[Cur] \in {"LOADED", "COMPARED"}
              /\ log'[k].op \in MutatingOps => status[Cur] = "COMPARED"
    /\ \A t, u \in Targets :
          Before(t, u) /\ status'[u] # "PENDING" =>
              status'[t] \notin {"LOADED", "COMPARED"}

\* C9 as stated: every step follows the chain, and at the end of a completed
\* run every target is in NO_CHANGE, REPLACED or FAILED.
C9_StateMachineAsStated ==
    [][ run' = run =>
          /\ MachineStep(FALSE)
          /\ pc' = "done" => \A t \in Targets : status'[t] \in Terminal
      ]_vars

\* C9, amended: every step follows the chain or skips a pending target whose
\* path is missing; at the end of a run no target is left in LOADED or
\* COMPARED: each is in NO_CHANGE, REPLACED or FAILED, or was skipped for its
\* missing path, or is still pending because its spreadsheet failed to open
\* or an earlier failure ended the run.
C9_StateMachine ==
    [][ run' = run =>
          /\ MachineStep(TRUE)
          /\ RunEnded' =>
                \A t \in Targets :
                    /\ status'[t] \in Terminal \cup {"SKIPPED", "PENDING"}
                    /\ status'[t] = "SKIPPED" => fs[EntryOf(t).path].kind = "missing"
                    /\ status'[t] = "PENDING" =>
                          opened'[t[1]] = "failed" \/ pc' = "crashed"
      ]_vars

\* A completed run in which one target was skipped, one found unchanged and
\* one replaced.
C9_Witness ==
    /\ pc = "done"
    /\ \E t, u, w \in Targets :
          /\ status[t] = "SKIPPED"
          /\ status[u] = "NO_CHANGE"
          /\ status[w] = "REPLACED"

\* The run ended in the named call raising for the target at hand.
FailedAt(op) ==
    /\ pc = "crashed"
    /\ log # <<>>
    /\ log[Len(log)].op = op
    /\ log[Len(log)].tab = CurTab
    /\ log[Len(log)].out = "error"

BlankRows(n, cols) == [r \in 1..n |-> [c \in 1..cols |-> ""]]

\* The grid of a tab created for the Dataset, its header written and its
\* first k rows: the rows the tab was created with stay below them.
GridAfter(df, k) ==
    <<df.columns>> \o SubSeq(df.rows, 1, k)
        \o BlankRows(Len(df.rows) + 1, Len(df.columns))

\* The Dataset the loader gives for the target's path.
LocalOf(t) ==
    LET node == fs[EntryOf(t).path]
    IN  read_path_to_df(EntryOf(t).path, node,
                        CHOOSE l \in Listings(node) : TRUE).df

\* The tabs of the targets replaced in this run hold their whole Dataset.
CommittedStay ==
    \A t \in Targets :
        status[t] = "REPLACED" =>
            /\ tabs[TabOf(t)].exists
            /\ tabs[TabOf(t)].grid = GridAfter(LocalOf(t), Len(LocalOf(t).rows))

\* C10 as stated: after a failure of the create the tab is absent, after any
\* later failure of the replace it holds the header and the batches written
\* so far; what earlier targets committed stays.
C10_NoRollbackAsStated ==
    /\ FailedAt("add_worksheet") => ~tabs[CurTab].exists
    /\ FailedAt("insert_row") \/ FailedAt("insert_rows") =>
          /\ tabs[CurTab].exists
          /\ tabs[CurTab].grid = GridAfter(df_local, i)
    /\ CommittedStay

\* C10, amended: after a failure of the create the tab is absent; after a
\* failure of the header write it is the blank tab as created; after a
\* failure of a batch write it holds the header and exactly the batches
\* written before, a prefix of the local rows in order; what earlier targets
\* committed stays.
C10_NoRollback ==
    /\ FailedAt("add_worksheet") => ~tabs[CurTab].exists
    /\ FailedAt("insert_row") =>
          tabs[CurTab] = add_worksheet(Len(df_local.rows) + 1, Len(df_local.columns))
    /\ FailedAt("insert_rows") =>
          /\ tabs[CurTab].exists
          /\ i < Len(df_local.rows)
          /\ tabs[CurTab].grid = GridAfter(df_local, i)
    /\ CommittedStay

\* A batch write failed after an earlier batch of the same replace, with the
\* tab of an earlier target already replaced.
C10_Witness ==
    /\ FailedAt("insert_rows")
    /\ i > 0
    /\ \E t \in Targets : status[t] = "REPLACED"

====
